---- MODULE Spec2Model ----
(***************************************************************************)
(* DefaultCompress::compress (src/particle_operations/compress.h): the     *)
(* particle array compactor of vpic-kokkos.  Three Kokkos::parallel_for    *)
(* kernels run one after the other: marking of the gaps that lie in the   *)
(* last 2*nm slots, parallel back fill, and clean up of the moves the     *)
(* back fill deferred.  The units of work of one kernel interleave        *)
(* freely; a kernel starts when the previous one has completed.           *)
(*                                                                         *)
(* A field of a particle record is modelled by the number of the slot     *)
(* whose record it held before the call, so that a record copied whole    *)
(* carries one number in its eight fields.                                 *)
(***************************************************************************)
EXTENDS Integers, FiniteSets, Sequences, TLC

\* Largest particle count of the inputs explored, and largest mover count:
\* two thirds of it, so that a call can defer two moves (four movers, two
\* of them among the last four of six slots).
MaxNP == 6
MaxNM == (2 * MaxNP) \div 3

\* particle_var::dx .. particle_var::w of k_particles_t, then particles_i,
\* in the order the copy statements assign them.
FieldOrder == <<"dx", "dy", "dz", "ux", "uy", "uz", "w", "i">>
NumFields == Len(FieldOrder)
Fields == {FieldOrder[k] : k \in 1..NumFields}

VARIABLES
    np,                     \* const int32_t np
    nm,                     \* const int32_t nm
    particle_movers_i,      \* k_particle_i_movers_t, indices 0 .. nm-1
    particles,              \* particles and particles_i, slot -> field -> value
    unsafe_index,           \* Kokkos::View<int*>(2*nm), zero initialised
    clean_up_to_count,      \* Kokkos::View<int>
    clean_up_from_count,    \* Kokkos::View<int>
    clean_up_to_count_h,    \* host mirror of clean_up_to_count
    clean_up_from_count_h,  \* host mirror of clean_up_from_count
    clean_up_from,          \* Kokkos::View<int*>(nm), zero initialised
    clean_up_to,            \* Kokkos::View<int*>(nm), zero initialised
    phase,                  \* the kernel in flight
    pc1,                    \* position of each unit of the marking kernel
    pc2,                    \* position of each unit of the back fill kernel
    pc3,                    \* position of each unit of the clean up kernel
    written,                \* per slot, the record copies that had it as destination
    touched                 \* the slots whose record each kernel has read / written

vars == <<np, nm, particle_movers_i, particles, unsafe_index,
          clean_up_to_count, clean_up_from_count,
          clean_up_to_count_h, clean_up_from_count_h,
          clean_up_from, clean_up_to, phase, pc1, pc2, pc3, written, touched>>

Slots == 0..(np - 1)

\* The record slot s holds when compress is called.
Original(s) == [f \in Fields |-> s]

\* The mover lists the caller may pass: nm distinct indices in [0, np).
MoverLists(p, m) ==
    {mv \in [0..(m - 1) -> 0..(p - 1)] :
        \A a, b \in 0..(m - 1) : a # b => mv[a] # mv[b]}

\* Mutation of MarkRange: the range closed at nm.
MarkRange_Closed == 0..nm

\* RangePolicy(0, nm) of the marking kernel.
MarkRange == 0..(nm - 1)

\* RangePolicy(0, nm) of the back fill kernel.
BackfillRange == 0..(nm - 1)

\* RangePolicy(0, clean_up_from_count_h()) of the clean up kernel.
CleanUpRange(count) == 0..(count - 1)

\* Mutation of cut_off: only the last nm slots count as the danger zone.
cut_off_LastNm == np - nm

\* int cut_off = np-(2*nm);
cut_off == np - (2 * nm)

\* Mutation of ReverseIndex: np taken for np-1.
ReverseIndex_FromNp(pmi) == np - pmi

\* int index = ((np-1) - pmi);
ReverseIndex(pmi) == (np - 1) - pmi

\* int pull_from = (np-1) - (n);
pull_from(n) == (np - 1) - n

\* Mutation of write_to: the movers taken in forward order.
write_to_Forward(n) == particle_movers_i[n]

\* int write_to = particle_movers_i(nm-n-1);
write_to(n) == particle_movers_i[nm - n - 1]

\* Mutation of danger_zone: no destination counts as lying in the shrinking
\* region.
danger_zone_None == np

\* int danger_zone = np - nm;
danger_zone == np - nm

Idle == [at |-> "start", idx |-> 0, k |-> 0, wt |-> 0, pf |-> 0]
Finished == [at |-> "done", idx |-> 0, k |-> 0, wt |-> 0, pf |-> 0]

Init ==
    /\ np \in 0..MaxNP
    /\ nm \in 0..MaxNM
    /\ nm <= np
    /\ particle_movers_i \in MoverLists(np, nm)
    /\ particles = [s \in Slots |-> Original(s)]
    /\ unsafe_index = [k \in 0..(2 * nm - 1) |-> 0]
    /\ clean_up_to_count = 0
    /\ clean_up_from_count = 0
    /\ clean_up_to_count_h = 0
    /\ clean_up_from_count_h = 0
    /\ clean_up_from = [k \in 0..(nm - 1) |-> 0]
    /\ clean_up_to = [k \in 0..(nm - 1) |-> 0]
    /\ phase = "mark"
    /\ pc1 = [i \in MarkRange |-> "start"]
    /\ pc2 = [n \in BackfillRange |-> Idle]
    /\ pc3 = [n \in {} |-> Idle]
    /\ written = [s \in Slots |-> 0]
    /\ touched = [r2 |-> {}, w2 |-> {}, r3 |-> {}, w3 |-> {}]

\* One unit of the marking kernel.
Mark(i) ==
    /\ phase = "mark"
    /\ pc1[i] = "start"
    /\ LET pmi == particle_movers_i[i] IN
          unsafe_index' = IF pmi >= cut_off
                          THEN [unsafe_index EXCEPT ![ReverseIndex(pmi)] = 1]
                          ELSE unsafe_index
    /\ pc1' = [pc1 EXCEPT ![i] = "done"]
    /\ UNCHANGED <<np, nm, particle_movers_i, particles,
                   clean_up_to_count, clean_up_from_count,
                   clean_up_to_count_h, clean_up_from_count_h,
                   clean_up_from, clean_up_to, phase, pc2, pc3, written, touched>>

\* Mutation of MarkComplete: the launch of the back fill also waits until
\* as many markers are set as there are movers.
MarkComplete_CountsMarkers ==
    /\ \A i \in DOMAIN pc1 : pc1[i] = "done"
    /\ Cardinality({k \in DOMAIN unsafe_index : unsafe_index[k] # 0}) = nm

\* Mutation of MarkComplete: the back fill is launched without waiting for
\* the marking kernel.
MarkComplete_NoWait == TRUE

\* Every unit of the marking kernel has returned (kernels of one execution
\* space run in the order they are launched).
MarkComplete == \A i \in DOMAIN pc1 : pc1[i] = "done"

\* The marking kernel has completed; the back fill kernel is launched.
EndMark ==
    /\ phase = "mark"
    /\ MarkComplete
    /\ phase' = "backfill"
    /\ UNCHANGED <<np, nm, particle_movers_i, particles, unsafe_index,
                   clean_up_to_count, clean_up_from_count,
                   clean_up_to_count_h, clean_up_from_count_h,
                   clean_up_from, clean_up_to, pc1, pc2, pc3, written, touched>>

\* Mutation of BackfillCase: the marker test of the danger zone branch
\* inverted (a pull_from that is a gap is the one recorded).
BackfillCase_Inverted(n) ==
    IF pull_from(n) = write_to(n) THEN "skip"
    ELSE IF write_to(n) >= danger_zone
         THEN IF pull_from(n) >= danger_zone
                 /\ unsafe_index[(np - 1) - pull_from(n)] # 0
              THEN "from"
              ELSE "skip"
         ELSE IF unsafe_index[n] # 0 THEN "to" ELSE "copy"

\* Mutation of BackfillCase: the marker test of the normal branch inverted.
BackfillCase_NormalInverted(n) ==
    IF pull_from(n) = write_to(n) THEN "skip"
    ELSE IF write_to(n) >= danger_zone
         THEN IF pull_from(n) >= danger_zone
                 /\ unsafe_index[(np - 1) - pull_from(n)] = 0
              THEN "from"
              ELSE "skip"
         ELSE IF unsafe_index[n] = 0 THEN "to" ELSE "copy"

\* Mutation of BackfillCase: the early returns for equal indices and for a
\* destination in the danger zone left out.
BackfillCase_NoDangerZone(n) ==
    IF unsafe_index[n] # 0 THEN "to" ELSE "copy"

\* The decision of unit n of the back fill kernel: "skip" (nothing to do),
\* "from" (append pull_from to clean_up_from), "to" (append write_to to
\* clean_up_to) or "copy" (move the record now).
BackfillCase(n) ==
    IF pull_from(n) = write_to(n) THEN "skip"
    ELSE IF write_to(n) >= danger_zone
         THEN IF pull_from(n) >= danger_zone
                 /\ unsafe_index[(np - 1) - pull_from(n)] = 0
              THEN "from"
              ELSE "skip"
         ELSE IF unsafe_index[n] # 0 THEN "to" ELSE "copy"

\* Mutation of CopyField: the last assignment reads particles_i(write_to),
\* so the identity tag of the destination is never replaced.
CopyField_TagFromDestination(wt, pf, f) ==
    [particles EXCEPT ![wt][f] = particles[IF f = "i" THEN wt ELSE pf][f]]

\* particles(write_to, f) = particles(pull_from, f) for one field f.
CopyField(wt, pf, f) == [particles EXCEPT ![wt][f] = particles[pf][f]]

\* Mutation of atomic_fetch_add: the value after the addition is returned.
atomic_add_fetch(counter) == [returned |-> counter + 1, stored |-> counter + 1]

\* Kokkos::atomic_fetch_add(&counter, 1): the value before the addition is
\* returned and the counter is one more, in one indivisible step.
atomic_fetch_add(counter) == [returned |-> counter, stored |-> counter + 1]

\* Unit n of the back fill kernel reads its indices and the marker and
\* takes its branch; an append begins with the atomic_fetch_add.
BackfillStart(n) ==
    /\ phase = "backfill"
    /\ pc2[n].at = "start"
    /\ LET c == BackfillCase(n) IN
        /\ clean_up_from_count' =
               IF c = "from" THEN atomic_fetch_add(clean_up_from_count).stored
               ELSE clean_up_from_count
        /\ clean_up_to_count' =
               IF c = "to" THEN atomic_fetch_add(clean_up_to_count).stored
               ELSE clean_up_to_count
        /\ written' = IF c = "copy"
                      THEN [written EXCEPT ![write_to(n)] = @ + 1]
                      ELSE written
        /\ pc2' = [pc2 EXCEPT ![n] =
               CASE c = "from" -> [Idle EXCEPT !.at = "store_from",
                                               !.idx = atomic_fetch_add(clean_up_from_count).returned]
                 [] c = "to"   -> [Idle EXCEPT !.at = "store_to",
                                               !.idx = atomic_fetch_add(clean_up_to_count).returned]
                 [] c = "copy" -> [Idle EXCEPT !.at = "copy", !.k = 1,
                                               !.wt = write_to(n),
                                               !.pf = pull_from(n)]
                 [] OTHER      -> Finished]
    /\ UNCHANGED <<np, nm, particle_movers_i, particles, unsafe_index,
                   clean_up_to_count_h, clean_up_from_count_h,
                   clean_up_from, clean_up_to, phase, pc1, pc3, touched>>

\* clean_up_from(clean_up_from_index) = pull_from;
BackfillStoreFrom(n) ==
    /\ phase = "backfill"
    /\ pc2[n].at = "store_from"
    /\ clean_up_from' = [clean_up_from EXCEPT ![pc2[n].idx] = pull_from(n)]
    /\ pc2' = [pc2 EXCEPT ![n] = Finished]
    /\ UNCHANGED <<np, nm, particle_movers_i, particles, unsafe_index,
                   clean_up_to_count, clean_up_from_count,
                   clean_up_to_count_h, clean_up_from_count_h,
                   clean_up_to, phase, pc1, pc3, written, touched>>

\* Mutation of AfterStoreTo: the return after the append is missing and the
\* unit goes on to move the record.
AfterStoreTo_FallThrough(n) ==
    [Idle EXCEPT !.at = "copy", !.k = 1, !.wt = write_to(n), !.pf = pull_from(n)]

\* return; after the append to clean_up_to.
AfterStoreTo(n) == Finished

\* clean_up_to(clean_up_to_index) = write_to; return;
BackfillStoreTo(n) ==
    /\ phase = "backfill"
    /\ pc2[n].at = "store_to"
    /\ clean_up_to' = [clean_up_to EXCEPT ![pc2[n].idx] = write_to(n)]
    /\ pc2' = [pc2 EXCEPT ![n] = AfterStoreTo(n)]
    /\ UNCHANGED <<np, nm, particle_movers_i, particles, unsafe_index,
                   clean_up_to_count, clean_up_from_count,
                   clean_up_to_count_h, clean_up_from_count_h,
                   clean_up_from, phase, pc1, pc3, written, touched>>

\* One of the eight assignments that move the record of unit n.
BackfillCopyField(n) ==
    /\ phase = "backfill"
    /\ pc2[n].at = "copy"
    /\ particles' = CopyField(pc2[n].wt, pc2[n].pf, FieldOrder[pc2[n].k])
    /\ touched' = [touched EXCEPT !.r2 = @ \cup {pc2[n].pf},
                                  !.w2 = @ \cup {pc2[n].wt}]
    /\ pc2' = [pc2 EXCEPT ![n] = IF pc2[n].k = NumFields
                                 THEN Finished
                                 ELSE [pc2[n] EXCEPT !.k = @ + 1]]
    /\ UNCHANGED <<np, nm, particle_movers_i, unsafe_index,
                   clean_up_to_count, clean_up_from_count,
                   clean_up_to_count_h, clean_up_from_count_h,
                   clean_up_from, clean_up_to, phase, pc1, pc3, written>>

\* The back fill kernel has completed; the two deep_copy calls read the
\* counters and the clean up kernel is launched over [0, clean_up_from_count_h).
EndBackfill ==
    /\ phase = "backfill"
    /\ \A n \in DOMAIN pc2 : pc2[n].at = "done"
    /\ clean_up_from_count_h' = clean_up_from_count
    /\ clean_up_to_count_h' = clean_up_to_count
    /\ pc3' = [n \in CleanUpRange(clean_up_from_count) |-> Idle]
    /\ phase' = "cleanup"
    /\ UNCHANGED <<np, nm, particle_movers_i, particles, unsafe_index,
                   clean_up_to_count, clean_up_from_count,
                   clean_up_from, clean_up_to, pc1, pc2, written, touched>>

\* Mutation of clean_up_write_to: the destination read from the list of
\* sources.
clean_up_write_to_FromList(n) == clean_up_from[n]

\* int write_to = clean_up_to(n);
clean_up_write_to(n) == clean_up_to[n]

\* int pull_from = clean_up_from(n);
clean_up_pull_from(n) == clean_up_from[n]

\* Unit n of the clean up kernel reads its pair of list entries.
CleanUpStart(n) ==
    /\ phase = "cleanup"
    /\ pc3[n].at = "start"
    /\ pc3' = [pc3 EXCEPT ![n] = [Idle EXCEPT !.at = "copy", !.k = 1,
                                              !.wt = clean_up_write_to(n),
                                              !.pf = clean_up_pull_from(n)]]
    /\ written' = [written EXCEPT ![clean_up_write_to(n)] = @ + 1]
    /\ UNCHANGED <<np, nm, particle_movers_i, particles, unsafe_index,
                   clean_up_to_count, clean_up_from_count,
                   clean_up_to_count_h, clean_up_from_count_h,
                   clean_up_from, clean_up_to, phase, pc1, pc2, touched>>

\* One of the eight assignments that move the record of clean up unit n.
CleanUpCopyField(n) ==
    /\ phase = "cleanup"
    /\ pc3[n].at = "copy"
    /\ particles' = CopyField(pc3[n].wt, pc3[n].pf, FieldOrder[pc3[n].k])
    /\ touched' = [touched EXCEPT !.r3 = @ \cup {pc3[n].pf},
                                  !.w3 = @ \cup {pc3[n].wt}]
    /\ pc3' = [pc3 EXCEPT ![n] = IF pc3[n].k = NumFields
                                 THEN Finished
                                 ELSE [pc3[n] EXCEPT !.k = @ + 1]]
    /\ UNCHANGED <<np, nm, particle_movers_i, unsafe_index,
                   clean_up_to_count, clean_up_from_count,
                   clean_up_to_count_h, clean_up_from_count_h,
                   clean_up_from, clean_up_to, phase, pc1, pc2, written>>

\* The clean up kernel has completed; compress returns.
EndCleanUp ==
    /\ phase = "cleanup"
    /\ \A n \in DOMAIN pc3 : pc3[n].at = "done"
    /\ phase' = "done"
    /\ UNCHANGED <<np, nm, particle_movers_i, particles, unsafe_index,
                   clean_up_to_count, clean_up_from_count,
                   clean_up_to_count_h, clean_up_from_count_h,
                   clean_up_from, clean_up_to, pc1, pc2, pc3, written, touched>>

Next == \/ \E i \in DOMAIN pc1 : Mark(i)
        \/ EndMark
        \/ \E n \in DOMAIN pc2 : BackfillStart(n)
        \/ \E n \in DOMAIN pc2 : BackfillStoreFrom(n)
        \/ \E n \in DOMAIN pc2 : BackfillStoreTo(n)
        \/ \E n \in DOMAIN pc2 : BackfillCopyField(n)
        \/ EndBackfill
        \/ \E n \in DOMAIN pc3 : CleanUpStart(n)
        \/ \E n \in DOMAIN pc3 : CleanUpCopyField(n)
        \/ EndCleanUp

Spec == Init /\ [][Next]_vars

----------------------------------------------------------------------------
\* Vocabulary of the properties.

Done == phase = "done"

\* Every unit of the back fill kernel has returned.
BackfillOver ==
    \/ phase \in {"cleanup", "done"}
    \/ phase = "backfill" /\ \A n \in DOMAIN pc2 : pc2[n].at = "done"

\* The slots the mover list names.
Gaps == {particle_movers_i[i] : i \in 0..(nm - 1)}

\* The slots that remain active after the call.
Kept == 0..(np - nm - 1)

\* The entries appended so far to the two deferred lists.
FromEntries == {clean_up_from[k] : k \in 0..(clean_up_from_count - 1)}
ToEntries == {clean_up_to[k] : k \in 0..(clean_up_to_count - 1)}

Unchanged(s) == particles[s] = Original(s)

----------------------------------------------------------------------------
\* C1 (conservation): when compress has finished, every record that was at
\* a slot no mover names is the identity tag of exactly one slot of
\* [0, np-nm), and no record that was at a mover position is the tag of any
\* of them: the tags kept are the tags of before minus those at the movers.
C1_Conservation ==
    Done =>
        \A s \in Slots :
            Cardinality({t \in Kept : particles[t]["i"] = s})
                = IF s \in Gaps THEN 0 ELSE 1

\* A finished call that both moved a record in the back fill and deferred
\* a move to the clean up.
C1_Witness ==
    /\ Done
    /\ clean_up_from_count_h >= 1
    /\ \E n \in BackfillRange : BackfillCase(n) = "copy"

\* C2 (field atomicity): with the eight fields of a record assigned one at
\* a time, every slot of [0, np-nm) holds at completion the eight fields of
\* one single original record.
C2_FieldAtomicity ==
    Done => \A t \in Kept : \E s \in Slots : particles[t] = Original(s)

\* Two units of the back fill are both part way through their record, and
\* the destination of one holds new and old fields side by side.
C2_Witness ==
    \E a, b \in DOMAIN pc2 :
        /\ a # b
        /\ pc2[a].at = "copy" /\ pc2[a].k > 1
        /\ pc2[b].at = "copy" /\ pc2[b].k > 1
        /\ \E f, g \in Fields : particles[pc2[a].wt][f] # particles[pc2[a].wt][g]

\* C3 (no double write): no slot is the destination of more than one record
\* copy, the copies of the back fill and of the clean up counted together.
C3_NoDoubleWrite ==
    \A s \in Slots : written[s] <= 1

\* A finished call in which a slot was the destination of a copy of the
\* back fill and another slot the destination of a copy of the clean up.
C3_Witness ==
    /\ Done
    /\ \E n \in DOMAIN pc3 : written[clean_up_to[n]] = 1
    /\ \E n \in BackfillRange :
          BackfillCase(n) = "copy" /\ written[write_to(n)] = 1

\* The deferred list of one kind ("from" or "to") as the back fill leaves
\* it when its units run one after the other in index order, from unit n on.
RECURSIVE InOrderList(_, _)
InOrderList(kind, n) ==
    IF n >= nm THEN <<>>
    ELSE (IF BackfillCase(n) = kind
          THEN <<IF kind = "from" THEN pull_from(n) ELSE write_to(n)>>
          ELSE <<>>) \o InOrderList(kind, n + 1)

\* The array the call leaves when the units of every kernel run one after
\* the other in index order: one of the executions of the call.
InOrderResult ==
    LET from == InOrderList("from", 0)
        to == InOrderList("to", 0)
    IN [t \in Slots |->
          IF \E n \in BackfillRange : BackfillCase(n) = "copy" /\ write_to(n) = t
          THEN Original(pull_from(CHOOSE n \in BackfillRange :
                                     BackfillCase(n) = "copy" /\ write_to(n) = t))
          ELSE IF \E k \in 1..Len(from) : to[k] = t
          THEN Original(from[CHOOSE k \in 1..Len(from) : to[k] = t])
          ELSE Original(t)]

\* C4 (determinism): the final content of every slot of [0, np-nm) is the
\* same in every execution of the call on a given input, and so is in
\* every execution what the in-order execution leaves.
C4_Determinism ==
    Done => \A t \in Kept : particles[t] = InOrderResult[t]

\* C5 (no danger zone overlap): when no mover lies in [np-nm, np), at
\* completion slot movers[nm-1-n] holds the original record of slot np-1-n
\* for every n, every other slot holds its original record, and both
\* deferred lists are empty.
C5_NoOverlap ==
    (Done /\ \A i \in 0..(nm - 1) : particle_movers_i[i] < np - nm) =>
        /\ \A n \in 0..(nm - 1) :
              particles[particle_movers_i[nm - 1 - n]] = Original(np - 1 - n)
        /\ \A s \in Slots \ Gaps : Unchanged(s)
        /\ clean_up_from_count = 0
        /\ clean_up_to_count = 0

\* A finished call with three movers in an order that is neither ascending
\* nor descending, none of them in the last three slots.
C5_Witness ==
    /\ Done
    /\ nm = 3
    /\ \A i \in 0..(nm - 1) : particle_movers_i[i] < np - nm
    /\ particle_movers_i[0] < particle_movers_i[1]
    /\ particle_movers_i[2] < particle_movers_i[1]
    /\ \A n \in 0..(nm - 1) : ~Unchanged(particle_movers_i[n])

\* C6 (self assignment): a unit n of the back fill with
\* (np-1)-n = movers[nm-1-n] never appends to either deferred list, the slot
\* is in neither list, and the record at that slot is never changed.
C6_SelfAssignment ==
    \A n \in 0..(nm - 1) :
        (np - 1) - n = particle_movers_i[nm - 1 - n] =>
            /\ pc2[n].at \in {"start", "done"}
            /\ (np - 1) - n \notin FromEntries
            /\ (np - 1) - n \notin ToEntries
            /\ Unchanged((np - 1) - n)

\* A finished call with a unit whose two indices are equal, in which other
\* units appended to both lists and the clean up moved a record.
C6_Witness ==
    /\ Done
    /\ \E n \in 0..(nm - 1) : (np - 1) - n = particle_movers_i[nm - 1 - n]
    /\ clean_up_from_count >= 1
    /\ clean_up_to_count >= 1

\* C7 (trivial case): when nm = 0 no kernel has a unit of work and every
\* slot of the particle array keeps all its fields.
C7_Trivial ==
    nm = 0 =>
        /\ DOMAIN pc1 = {}
        /\ DOMAIN pc2 = {}
        /\ DOMAIN pc3 = {}
        /\ \A s \in Slots : Unchanged(s) /\ written[s] = 0

\* A call without movers on an array of several particles has finished.
C7_Witness ==
    Done /\ nm = 0 /\ np >= 2

\* The units of the back fill whose two indices differ and whose
\* destination lies in the shrinking region [np-nm, np).
TailUnits ==
    {n \in 0..(nm - 1) :
        /\ (np - 1) - n # particle_movers_i[nm - 1 - n]
        /\ particle_movers_i[nm - 1 - n] >= np - nm}

\* The units of the back fill whose two indices differ and whose
\* destination lies below np-nm.
NormalUnits ==
    {n \in 0..(nm - 1) :
        /\ (np - 1) - n # particle_movers_i[nm - 1 - n]
        /\ particle_movers_i[nm - 1 - n] < np - nm}

\* C8 as stated (destination in the shrinking region): once the back fill
\* is over, such a unit has recorded pull_from in the deferred-source list
\* exactly if the marker at (np-1)-pull_from is set, and has copied nothing.
C8_RecordsGapSource ==
    BackfillOver =>
        \A n \in TailUnits :
            /\ ((np - 1) - n \in FromEntries)
                  <=> unsafe_index[(np - 1) - ((np - 1) - n)] # 0
            /\ particle_movers_i[nm - 1 - n] \notin ToEntries
            /\ written[particle_movers_i[nm - 1 - n]] = 0
            /\ Unchanged(particle_movers_i[nm - 1 - n])

\* C8 as amended: once the back fill is over, such a unit has recorded
\* pull_from in the deferred-source list exactly if the marker at
\* (np-1)-pull_from is not set (pull_from holds a surviving particle), has
\* recorded nothing in the deferred-destination list and has copied nothing.
C8_RecordsLiveSource ==
    BackfillOver =>
        \A n \in TailUnits :
            /\ ((np - 1) - n \in FromEntries)
                  <=> unsafe_index[(np - 1) - ((np - 1) - n)] = 0
            /\ particle_movers_i[nm - 1 - n] \notin ToEntries
            /\ written[particle_movers_i[nm - 1 - n]] = 0
            /\ Unchanged(particle_movers_i[nm - 1 - n])

\* The back fill is over; one unit with its destination in the shrinking
\* region recorded its pull_from, another found its pull_from marked and
\* recorded nothing.
C8_Witness ==
    /\ BackfillOver
    /\ \E a, b \in TailUnits :
          /\ unsafe_index[a] = 0 /\ (np - 1) - a \in FromEntries
          /\ unsafe_index[b] # 0 /\ (np - 1) - b \notin FromEntries

\* C9 (normal case): once the back fill is over, a unit n with differing
\* indices and write_to < np-nm has, if the marker at n is set, recorded
\* write_to in the deferred-destination list and left the slot as it was
\* until the clean up; otherwise slot movers[nm-1-n] holds the eight fields
\* of the original record of slot (np-1)-n and the unit recorded nothing.
C9_NormalCase ==
    BackfillOver =>
        \A n \in NormalUnits :
            LET w == particle_movers_i[nm - 1 - n]
                p == (np - 1) - n
            IN IF unsafe_index[n] # 0
               THEN /\ w \in ToEntries
                    /\ p \notin FromEntries
                    /\ phase = "backfill" => Unchanged(w) /\ written[w] = 0
               ELSE /\ particles[w] = Original(p)
                    /\ written[w] = 1
                    /\ w \notin ToEntries
                    /\ p \notin FromEntries

\* The back fill is over and the clean up not begun; one normal unit has
\* moved its record and another has deferred its destination.
C9_Witness ==
    /\ phase = "backfill"
    /\ BackfillOver
    /\ \E a, b \in NormalUnits :
          /\ unsafe_index[a] = 0
          /\ particles[particle_movers_i[nm - 1 - a]] = Original((np - 1) - a)
          /\ unsafe_index[b] # 0
          /\ particle_movers_i[nm - 1 - b] \in ToEntries

\* C10 (equal deferred lists): once the back fill is over the two counters
\* are equal, and every position the clean up loop reads, in either list,
\* is one a unit of the back fill wrote: a pull_from of a unit that
\* deferred its source, paired with a write_to of a unit that deferred its
\* destination.
C10_EqualLists ==
    BackfillOver =>
        /\ clean_up_from_count = clean_up_to_count
        /\ \A k \in CleanUpRange(clean_up_from_count) :
              /\ k < clean_up_to_count
              /\ \E n \in TailUnits :
                    clean_up_from[k] = (np - 1) - n /\ unsafe_index[n] = 0
              /\ \E n \in NormalUnits :
                    clean_up_to[k] = particle_movers_i[nm - 1 - n]
                    /\ unsafe_index[n] # 0
        /\ phase \in {"cleanup", "done"} =>
              /\ clean_up_from_count_h = clean_up_from_count
              /\ DOMAIN pc3 = CleanUpRange(clean_up_to_count)

\* The clean up runs over two entries of each list.
C10_Witness ==
    /\ phase = "cleanup"
    /\ clean_up_from_count_h = 2
    /\ clean_up_to_count = 2

\* The slots [np-nm, np) that leave the active range.
Shrinking == {s \in Slots : s >= np - nm}

\* C11 (reconciliation): the clean up has one unit per pair of entries the
\* back fill recorded; the destination of each is a mover index below np-nm
\* that the back fill did not fill, its source a slot of [np-nm, np) that no
\* mover names, and no source serves two units.  At completion every unit
\* has moved the whole record of its source to its destination, once, and
\* the clean up has touched no other slot; it has moved at least one record
\* whenever a normal unit of the back fill found its pull_from to be a gap.
C11_Reconciliation ==
    /\ phase \in {"cleanup", "done"} =>
          /\ DOMAIN pc3 = 0..(clean_up_from_count - 1)
          /\ DOMAIN pc3 = 0..(clean_up_to_count - 1)
          /\ \A k \in DOMAIN pc3 :
                /\ clean_up_to[k] \in Gaps \ Shrinking
                /\ clean_up_to[k] \notin touched.w2
                /\ clean_up_from[k] \in Shrinking \ Gaps
                /\ \A j \in DOMAIN pc3 :
                      j # k => clean_up_from[j] # clean_up_from[k]
          /\ touched.w3 \subseteq {clean_up_to[k] : k \in DOMAIN pc3}
          /\ touched.r3 \subseteq {clean_up_from[k] : k \in DOMAIN pc3}
    /\ Done =>
          /\ \A k \in DOMAIN pc3 :
                /\ particles[clean_up_to[k]] = Original(clean_up_from[k])
                /\ written[clean_up_to[k]] = 1
          /\ touched.w3 = {clean_up_to[k] : k \in DOMAIN pc3}
          /\ touched.r3 = {clean_up_from[k] : k \in DOMAIN pc3}
          /\ (\E n \in NormalUnits : unsafe_index[n] # 0) => DOMAIN pc3 # {}

\* The call on np = 6, movers = [1, 3, 4] has finished; the clean up moved
\* a record and [0, 3) holds the records that were at slots 0, 2 and 5.
C11_Witness ==
    /\ Done
    /\ np = 6 /\ nm = 3
    /\ particle_movers_i = [i \in 0..2 |-> IF i = 0 THEN 1 ELSE i + 2]
    /\ DOMAIN pc3 # {}
    /\ {particles[t]["i"] : t \in Kept} = {0, 2, 5}

\* C12 (race freedom): the slots whose record the back fill reads are slots
\* of [np-nm, np) that no mover names, the slots it writes lie in
\* [0, np-nm), and no slot is both read and written by the back fill; nor
\* is any slot both read and written by the clean up.
C12_RaceFree ==
    /\ touched.r2 \subseteq Shrinking \ Gaps
    /\ touched.w2 \subseteq Kept
    /\ touched.r2 \cap touched.w2 = {}
    /\ touched.r3 \cap touched.w3 = {}

\* A finished call in which both the back fill and the clean up moved a
\* record.
C12_Witness ==
    /\ Done
    /\ touched.r2 # {} /\ touched.w2 # {}
    /\ touched.r3 # {} /\ touched.w3 # {}

\* Every unit of the marking kernel has returned.
MarkOver ==
    \/ phase # "mark"
    \/ \A i \in DOMAIN pc1 : pc1[i] = "done"

\* C13 (danger zone marker): the marker has 2*nm entries; an entry is set
\* only by the unit of a mover whose slot it stands for, two units never
\* write the same entry, and once the marking is over entry k is set
\* exactly if slot np-1-k is named by a mover.
C13_Marker ==
    /\ DOMAIN unsafe_index = 0..(2 * nm - 1)
    /\ \A k \in DOMAIN unsafe_index :
          unsafe_index[k] # 0 =>
              \E i \in DOMAIN pc1 :
                  pc1[i] = "done" /\ (np - 1) - particle_movers_i[i] = k
    /\ \A i, j \in DOMAIN pc1 :
          (i # j /\ particle_movers_i[i] >= np - 2 * nm
                 /\ particle_movers_i[j] >= np - 2 * nm)
              => (np - 1) - particle_movers_i[i] # (np - 1) - particle_movers_i[j]
    /\ MarkOver =>
          \A k \in 0..(2 * nm - 1) :
              unsafe_index[k] # 0 <=> (np - 1) - k \in Gaps

\* The marking is over; one mover lies below the danger zone and set no
\* entry, another lies in [np-2*nm, np-nm) and set the entry of its slot.
C13_Witness ==
    /\ phase = "backfill"
    /\ \E i \in DOMAIN pc1 : particle_movers_i[i] < np - 2 * nm
    /\ \E k \in DOMAIN unsafe_index : k >= nm /\ unsafe_index[k] # 0

\* The units of the back fill that append to the deferred-source list and
\* those that append to the deferred-destination list.
FromUnits == {n \in TailUnits : unsafe_index[n] = 0}
ToUnits == {n \in NormalUnits : unsafe_index[n] # 0}

\* C14 (atomic append): two units that are between their fetch-and-add and
\* their store on the same list hold different positions, each below the
\* counter; the counter of a list equals the number of units that have
\* made their fetch-and-add on it; and once the back fill is over the
\* positions 0 .. count-1 of each list hold the values of the appending
\* units, one unit per position.
C14_AtomicAppend ==
    /\ \A a, b \in DOMAIN pc2 :
          (a # b /\ pc2[a].at = pc2[b].at
                 /\ pc2[a].at \in {"store_from", "store_to"})
              => pc2[a].idx # pc2[b].idx
    /\ \A n \in DOMAIN pc2 :
          /\ pc2[n].at = "store_from" =>
                pc2[n].idx \in 0..(clean_up_from_count - 1)
          /\ pc2[n].at = "store_to" =>
                pc2[n].idx \in 0..(clean_up_to_count - 1)
    /\ phase = "backfill" =>
          /\ clean_up_from_count =
                Cardinality({n \in FromUnits : pc2[n].at # "start"})
          /\ clean_up_to_count =
                Cardinality({n \in ToUnits : pc2[n].at # "start"})
    /\ BackfillOver =>
          /\ clean_up_from_count = Cardinality(FromUnits)
          /\ clean_up_to_count = Cardinality(ToUnits)
          /\ FromEntries = {(np - 1) - n : n \in FromUnits}
          /\ ToEntries = {particle_movers_i[nm - 1 - n] : n \in ToUnits}
          /\ Cardinality(FromEntries) = clean_up_from_count
          /\ Cardinality(ToEntries) = clean_up_to_count

\* Two units hold positions of the deferred-source list they have not yet
\* stored to, while a third holds a position of the deferred-destination
\* list.
C14_Witness ==
    \E a, b, c \in DOMAIN pc2 :
        /\ a # b
        /\ pc2[a].at = "store_from"
        /\ pc2[b].at = "store_from"
        /\ pc2[c].at = "store_to"

\* C15 (phase barrier): while any unit of the marking kernel has not
\* returned no unit of the back fill has started and no record has been
\* touched; while any unit of the back fill has not returned the clean up
\* has no unit, has touched no record and the host copies of the counters
\* are unread; and the clean up runs over [0, c) where c is the value of
\* the deferred-source counter after every append of the back fill.
C15_Barrier ==
    /\ (\E i \in DOMAIN pc1 : pc1[i] # "done") =>
          /\ \A n \in DOMAIN pc2 : pc2[n].at = "start"
          /\ touched.r2 = {} /\ touched.w2 = {}
          /\ clean_up_from_count = 0 /\ clean_up_to_count = 0
    /\ (\E n \in DOMAIN pc2 : pc2[n].at # "done") =>
          /\ DOMAIN pc3 = {}
          /\ touched.r3 = {} /\ touched.w3 = {}
          /\ clean_up_from_count_h = 0 /\ clean_up_to_count_h = 0
    /\ phase \in {"cleanup", "done"} =>
          /\ clean_up_from_count_h = clean_up_from_count
          /\ clean_up_to_count_h = clean_up_to_count
          /\ clean_up_from_count = Cardinality(FromUnits)
          /\ DOMAIN pc3 = 0..(clean_up_from_count_h - 1)

\* A unit of the clean up has started on a list of two entries, after a
\* back fill in which units appended and a marking of four movers.
C15_Witness ==
    /\ phase = "cleanup"
    /\ nm = 4
    /\ Cardinality(DOMAIN pc3) = 2
    /\ \E n \in DOMAIN pc3 : pc3[n].at = "copy"
    /\ \E n \in DOMAIN pc3 : pc3[n].at = "start"

\* C16 (downstream data flow): the marker is written only while the
\* marking kernel runs, the deferred lists and their counters only while
\* the back fill runs, and once the back fill is over no slot recorded in
\* either deferred list has had its record read or written by the back
\* fill.
C16_Downstream ==
    /\ [][/\ phase # "mark" => unsafe_index' = unsafe_index
          /\ phase # "backfill" =>
                /\ clean_up_from' = clean_up_from
                /\ clean_up_to' = clean_up_to
                /\ clean_up_from_count' = clean_up_from_count
                /\ clean_up_to_count' = clean_up_to_count]_vars
    /\ [](BackfillOver =>
            (touched.r2 \cup touched.w2) \cap (FromEntries \cup ToEntries) = {})

\* The clean up has moved the records of the slots the back fill recorded,
\* and the back fill moved a record of its own.
C16_Witness ==
    /\ Done
    /\ touched.w2 # {}
    /\ FromEntries # {} /\ touched.r3 = FromEntries
    /\ ToEntries # {} /\ touched.w3 = ToEntries

\* C17 (tail and non-gap slots are never written): in every state the only
\* slots that have been the destination of a record copy, in the back fill
\* or in the clean up, are mover indices below np-nm, and every slot of
\* [np-nm, np) and every slot no mover names holds the record it held when
\* compress was called.
C17_OnlyLowGapsWritten ==
    /\ \A s \in Slots : written[s] > 0 => s \in Gaps \ Shrinking
    /\ touched.w2 \cup touched.w3 \subseteq Gaps \ Shrinking
    /\ \A s \in Shrinking \cup (Slots \ Gaps) : Unchanged(s)

\* A finished call that filled gaps in both kernels and left alone a gap
\* of the shrinking region and a live slot below it.
C17_Witness ==
    /\ Done
    /\ touched.w2 # {} /\ touched.w3 # {}
    /\ Gaps \cap Shrinking # {}
    /\ Kept \ Gaps # {}
    /\ \A s \in Gaps \ Shrinking : ~Unchanged(s)

----------------------------------------------------------------------------
\* The call under a scheduler that keeps running units of work: a step that
\* stays possible is eventually taken.  A unit that can take a step can
\* take it until it does, so this is implied by weak fairness of each unit
\* of work.
FairSpec == Spec /\ WF_vars(Next)

\* Every unit of the kernel in flight that has not returned can take its
\* next step, whatever the other units of the kernel have done.
NoUnitWaits ==
    /\ \A i \in DOMAIN pc1 :
          (phase = "mark" /\ pc1[i] # "done") => ENABLED Mark(i)
    /\ \A n \in DOMAIN pc2 :
          (phase = "backfill" /\ pc2[n].at # "done") =>
              ENABLED (\/ BackfillStart(n) \/ BackfillStoreFrom(n)
                       \/ BackfillStoreTo(n) \/ BackfillCopyField(n))
    /\ \A n \in DOMAIN pc3 :
          (phase = "cleanup" /\ pc3[n].at # "done") =>
              ENABLED (CleanUpStart(n) \/ CleanUpCopyField(n))

\* C18 (termination): under fair scheduling of the units of work the call
\* eventually returns; meanwhile no unit waits on another unit of its
\* kernel, and no kernel has more than nm units of work.
C18_Termination ==
    /\ <>Done
    /\ [](/\ NoUnitWaits
          /\ Cardinality(DOMAIN pc1) <= nm
          /\ Cardinality(DOMAIN pc2) <= nm
          /\ Cardinality(DOMAIN pc3) <= nm)

\* The call on four movers has returned after a clean up of two units.
C18_Witness ==
    /\ Done
    /\ nm = 4
    /\ Cardinality(DOMAIN pc1) = 4
    /\ Cardinality(DOMAIN pc3) = 2

\* C19 (in-bounds accesses): the views have their allocated extents, and
\* every access a unit is about to make is inside them: mover entries in
\* [0, nm), marker entries in [0, 2*nm), deferred-list positions in [0, nm)
\* and particle slots in [0, np), also when np - 2*nm is negative.
C19_InBounds ==
    /\ DOMAIN particle_movers_i = 0..(nm - 1)
    /\ DOMAIN unsafe_index = 0..(2 * nm - 1)
    /\ DOMAIN clean_up_from = 0..(nm - 1)
    /\ DOMAIN clean_up_to = 0..(nm - 1)
    /\ DOMAIN particles = 0..(np - 1)
    /\ phase = "mark" =>
          \A i \in DOMAIN pc1 :
              pc1[i] = "start" =>
                  /\ i \in 0..(nm - 1)
                  /\ particle_movers_i[i] >= cut_off =>
                        ReverseIndex(particle_movers_i[i]) \in 0..(2 * nm - 1)
    /\ phase = "backfill" =>
          \A n \in DOMAIN pc2 :
              /\ pc2[n].at = "start" =>
                    /\ nm - n - 1 \in 0..(nm - 1)
                    /\ pull_from(n) # write_to(n) =>
                          IF write_to(n) >= danger_zone
                          THEN pull_from(n) >= danger_zone =>
                                  (np - 1) - pull_from(n) \in 0..(2 * nm - 1)
                          ELSE /\ n \in 0..(2 * nm - 1)
                               /\ unsafe_index[n] = 0 =>
                                     /\ write_to(n) \in 0..(np - 1)
                                     /\ pull_from(n) \in 0..(np - 1)
              /\ pc2[n].at \in {"store_from", "store_to"} =>
                    pc2[n].idx \in 0..(nm - 1)
              /\ pc2[n].at = "copy" =>
                    /\ pc2[n].wt \in 0..(np - 1)
                    /\ pc2[n].pf \in 0..(np - 1)
    /\ phase = "cleanup" =>
          \A n \in DOMAIN pc3 :
              /\ pc3[n].at = "start" =>
                    /\ n \in 0..(nm - 1)
                    /\ clean_up_write_to(n) \in 0..(np - 1)
                    /\ clean_up_pull_from(n) \in 0..(np - 1)
              /\ pc3[n].at = "copy" =>
                    /\ pc3[n].wt \in 0..(np - 1)
                    /\ pc3[n].pf \in 0..(np - 1)

\* The clean up is moving a record in a call with 2*nm > np, where the cut
\* off of the marking is negative and every mover set a marker entry.
C19_Witness ==
    /\ phase = "cleanup"
    /\ cut_off < 0
    /\ nm >= 3
    /\ \A i \in DOMAIN pc1 :
          unsafe_index[ReverseIndex(particle_movers_i[i])] # 0
    /\ \E n \in DOMAIN pc3 : pc3[n].at = "copy" /\ pc3[n].k > 1
====
